---- MODULE Spec2Model ----
(***************************************************************************)
(* State-machine model of upi_analysis.py: the UPI transaction pipeline    *)
(* (load_and_clean_data, create_features, perform_eda,                     *)
(* forecast_transactions and the __main__ block).                          *)
(*                                                                         *)
(* A CSV cell is a tagged value [k, v]: "num" (an integer literal),        *)
(* "text" (unparseable text) or "empty" (a missing cell).  A float is a    *)
(* tagged value too: "num" (an integer-valued float), "dec2" (a float      *)
(* with two decimals, v counted in hundredths), "nan" or "inf" (v is the   *)
(* sign).  A Timestamp is a record [year, month, day].                     *)
(***************************************************************************)
EXTENDS Integers, Sequences, FiniteSets

VARIABLES entry, file, pc, exc, df_cleaned, df_featured, stdout, files, steps,
          train, test, eval_fit, eval_predict, metrics, full_fit, future,
          final_forecast

vars == <<entry, file, pc, exc, df_cleaned, df_featured, stdout, files, steps,
          train, test, eval_fit, eval_predict, metrics, full_fit, future,
          final_forecast>>

-----------------------------------------------------------------------------
(* Bounds of the model *)

MaxRows == 26
MaxSmallRows == 2

(* Program constants *)

LOOKBACK == 12
HOLDOUT == 12
HORIZON == 24
DECOMPOSE_PERIOD == 12
MIN_CYCLES == 2
MIN_FIT_ROWS == 2
BASE_YEAR == 2020

-----------------------------------------------------------------------------
(* Cells and floats *)

Num(n) == [k |-> "num", v |-> n]
Dec2(h) == [k |-> "dec2", v |-> h]
NaN == [k |-> "nan", v |-> 0]
PosInf == [k |-> "inf", v |-> 1]
NegInf == [k |-> "inf", v |-> -1]
TextCell == [k |-> "text", v |-> 0]
EmptyCell == [k |-> "empty", v |-> 0]

IsNaN(x) == x.k = "nan"

Abs(n) == IF n < 0 THEN -n ELSE n

(* numpy rounding (rint): n/d to the nearest integer, ties to even; d # 0 *)
RoundHalfEven(n, d) ==
    LET nn == IF d < 0 THEN -n ELSE n
        dd == Abs(d)
        q == nn \div dd
        r == nn % dd
    IN  IF 2 * r < dd THEN q
        ELSE IF 2 * r > dd THEN q + 1
        ELSE IF q % 2 = 0 THEN q ELSE q + 1

(* float division a / b of integer-valued floats, as numpy divides *)
DivKind(a, b) ==
    IF b.v = 0
    THEN IF a.v = 0 THEN "nan" ELSE IF a.v > 0 THEN "posinf" ELSE "neginf"
    ELSE "finite"

-----------------------------------------------------------------------------
(* Timestamps *)

Timestamp(y, m, d) == [year |-> y, month |-> m, day |-> d]

Ordinal(t) == (t.year * 12 + (t.month - 1)) * 32 + t.day

(* MonthBegin offset: the first of the month after t *)
NextMonthStart(t) ==
    IF t.month = 12 THEN Timestamp(t.year + 1, 1, 1)
    ELSE Timestamp(t.year, t.month + 1, 1)

(* str(Year) + '-' + str(Month) + '-01' *)
DateString(row) == <<row.Year, row.Month, 1>>

DateParses(s) == s[2] \in 1..12 /\ s[3] \in 1..28

(* pd.to_datetime of one string, default errors='raise', where it parses *)
to_datetime(s) == Timestamp(s[1], s[2], s[3])

(* pd.to_numeric(..., errors='coerce') of one cell *)
to_numeric(c) == IF c.k = "num" THEN Num(c.v) ELSE NaN

-----------------------------------------------------------------------------
(* Sequence helpers *)

RECURSIVE SelectIdx(_, _, _)
SelectIdx(s, keep, i) ==
    IF i > Len(s) THEN <<>>
    ELSE IF i \in keep THEN <<s[i]>> \o SelectIdx(s, keep, i + 1)
    ELSE SelectIdx(s, keep, i + 1)

Head0(s, n) == IF n <= 0 THEN <<>> ELSE SubSeq(s, 1, IF n > Len(s) THEN Len(s) ELSE n)

Tail0(s, n) == IF n >= Len(s) THEN s ELSE SubSeq(s, Len(s) - n + 1, Len(s))

-----------------------------------------------------------------------------
(* Input tables: the rows of upi_raw_data.csv after pd.read_csv *)

RawRow(y, m, vol, val) ==
    [Year |-> y, Month |-> m, TransactionVolume_Cr |-> vol, TransactionValue_RsCr |-> val]

(* the i-th consecutive month counted from January of BASE_YEAR *)
YearOf(i) == BASE_YEAR + ((i - 1) \div 12)
MonthOf(i) == ((i - 1) % 12) + 1

Patterns == {"rising", "cyclic"}

PatternRow(pat, i) ==
    IF pat = "rising"
    THEN RawRow(YearOf(i), MonthOf(i), Num(10 + i), Num(25 * i))
    ELSE RawRow(YearOf(i), MonthOf(i), Num(i % 3), Num(i % 2))

BaseTable(pat, n) == [i \in 1..n |-> PatternRow(pat, i)]

Defects == {"none", "text_volume", "empty_value", "zero_volume", "bad_month",
            "swapped", "duplicate", "missing_month"}

(* a table of n consecutive months with one defect at row k *)
DefectTable(pat, n, defect, k) ==
    LET t == BaseTable(pat, n)
    IN  CASE defect = "none" -> t
          [] defect = "text_volume" ->
                [t EXCEPT ![k].TransactionVolume_Cr = TextCell]
          [] defect = "empty_value" ->
                [t EXCEPT ![k].TransactionValue_RsCr = EmptyCell]
          [] defect = "zero_volume" ->
                [t EXCEPT ![k].TransactionVolume_Cr = Num(0)]
          [] defect = "bad_month" ->
                [t EXCEPT ![k].Month = 13]
          [] defect = "swapped" ->
                IF k < n THEN [t EXCEPT ![k] = t[k + 1], ![k + 1] = t[k]] ELSE t
          [] defect = "duplicate" ->
                SubSeq(t, 1, k) \o SubSeq(t, k, n)
          [] defect = "missing_month" ->
                SubSeq(t, 1, k - 1) \o SubSeq(t, k + 1, n)

SmallRows ==
    {RawRow(BASE_YEAR, m, vol, val) :
        m \in {1, 2, 13}, vol \in {Num(0), Num(3), TextCell}, val \in {Num(7), EmptyCell}}

RECURSIVE SeqsUpTo(_, _)
SeqsUpTo(S, n) ==
    IF n = 0 THEN {<<>>}
    ELSE LET shorter == SeqsUpTo(S, n - 1)
         IN  shorter \cup {Append(s, x) : s \in shorter, x \in S}

SmallTables == SeqsUpTo(SmallRows, MaxSmallRows)

FileStatus == {"present", "missing", "unreadable"}

-----------------------------------------------------------------------------
(* load_and_clean_data *)

None == [none |-> TRUE, rows |-> <<>>]
DataFrame(rows) == [none |-> FALSE, rows |-> rows]

AllDatesParse(rows) == \A i \in 1..Len(rows) : DateParses(DateString(rows[i]))

(* df['Date'] = pd.to_datetime(...); df.set_index('Date') *)
WithDateIndex(rows) ==
    [i \in 1..Len(rows) |->
        [Date |-> to_datetime(DateString(rows[i])),
         Year |-> rows[i].Year,
         Month |-> rows[i].Month,
         TransactionVolume_Cr |-> rows[i].TransactionVolume_Cr,
         TransactionValue_RsCr |-> rows[i].TransactionValue_RsCr]]

(* the two pd.to_numeric(..., errors='coerce') assignments *)
CoerceNumeric(rows) ==
    [i \in 1..Len(rows) |->
        [rows[i] EXCEPT !.TransactionVolume_Cr = to_numeric(@),
                        !.TransactionValue_RsCr = to_numeric(@)]]

(* variant: dropna(subset = ['TransactionVolume_Cr']) *)
RowHasNaN_VolumeOnly(r) == IsNaN(r.TransactionVolume_Cr)

RowHasNaN(r) == IsNaN(r.TransactionVolume_Cr) \/ IsNaN(r.TransactionValue_RsCr)

(* df.dropna(inplace=True): row order is kept *)
dropna(rows) == SelectIdx(rows, {i \in 1..Len(rows) : ~RowHasNaN(rows[i])}, 1)

CleanRows(rows) == dropna(CoerceNumeric(WithDateIndex(rows)))

-----------------------------------------------------------------------------
(* create_features *)

AvgTransactionValue_Rs(r) ==
    LET kind == DivKind(r.TransactionValue_RsCr, r.TransactionVolume_Cr)
    IN  CASE kind = "finite" ->
                Dec2(RoundHalfEven(100 * r.TransactionValue_RsCr.v, r.TransactionVolume_Cr.v))
          [] kind = "nan" -> NaN
          [] kind = "posinf" -> PosInf
          [] kind = "neginf" -> NegInf

(* variant: pct_change() with its default lag of one row *)
YoY_PreviousRow(rows, t) ==
    IF t <= 1 THEN NaN
    ELSE LET cur == rows[t].TransactionVolume_Cr
             base == rows[t - 1].TransactionVolume_Cr
             kind == DivKind(cur, base)
         IN  CASE kind = "finite" -> Dec2(RoundHalfEven(10000 * (cur.v - base.v), base.v))
               [] kind = "nan" -> NaN
               [] kind = "posinf" -> PosInf
               [] kind = "neginf" -> NegInf

(* round(df['TransactionVolume_Cr'].pct_change(12) * 100, 2) at position t *)
YoY_Volume_Growth_pct(rows, t) ==
    IF t <= LOOKBACK THEN NaN
    ELSE LET cur == rows[t].TransactionVolume_Cr
             base == rows[t - LOOKBACK].TransactionVolume_Cr
             kind == DivKind(cur, base)
         IN  CASE kind = "finite" -> Dec2(RoundHalfEven(10000 * (cur.v - base.v), base.v))
               [] kind = "nan" -> NaN
               [] kind = "posinf" -> PosInf
               [] kind = "neginf" -> NegInf

create_features(rows) ==
    [t \in 1..Len(rows) |->
        [Date |-> rows[t].Date,
         Year |-> rows[t].Year,
         Month |-> rows[t].Month,
         TransactionVolume_Cr |-> rows[t].TransactionVolume_Cr,
         TransactionValue_RsCr |-> rows[t].TransactionValue_RsCr,
         AvgTransactionValue_Rs |-> AvgTransactionValue_Rs(rows[t]),
         YoY_Volume_Growth_pct |-> YoY_Volume_Growth_pct(rows, t)]]

-----------------------------------------------------------------------------
(* forecast_transactions: pure parts *)

(* df.reset_index()[['Date', 'TransactionVolume_Cr']].rename(ds, y) *)
ProphetDf(rows) ==
    [i \in 1..Len(rows) |-> [ds |-> rows[i].Date, y |-> rows[i].TransactionVolume_Cr]]

(* variant: the evaluation model is fitted on the whole frame *)
TrainSplit_WholeFrame(pdf) == pdf

(* variant: prophet_df.iloc[:-1] *)
TrainSplit_DropLastRow(pdf) == Head0(pdf, Len(pdf) - 1)

(* prophet_df.iloc[:-12] *)
TrainSplit(pdf) == Head0(pdf, Len(pdf) - HOLDOUT)

(* prophet_df.iloc[-12:] *)
TestSplit(pdf) == Tail0(pdf, HOLDOUT)

(* test[['ds']] *)
DsColumn(pdf) == [i \in 1..Len(pdf) |-> pdf[i].ds]

YColumn(pdf) == [i \in 1..Len(pdf) |-> pdf[i].y]

(* Prophet.fit raises ValueError on a history of fewer than 2 rows *)
FitRaises(history) == Len(history) < MIN_FIT_ROWS

RECURSIVE SortDates(_)
SortDates(S) ==
    IF S = {} THEN <<>>
    ELSE LET m == CHOOSE x \in S : \A y \in S : Ordinal(x) <= Ordinal(y)
         IN  <<m>> \o SortDates(S \ {m})

(* Prophet keeps history_dates: the sorted unique ds of the fitted frame *)
HistoryDates(history) == SortDates({history[i].ds : i \in 1..Len(history)})

(* pd.date_range(start, periods = n, freq = 'MS') *)
RECURSIVE MonthStartRange(_, _)
MonthStartRange(start, n) ==
    IF n = 0 THEN <<>>
    ELSE LET first == IF start.day = 1 THEN start ELSE NextMonthStart(start)
         IN  <<first>> \o MonthStartRange(NextMonthStart(first), n - 1)

(* variant: the generated dates are not filtered to those after the last date *)
make_future_dataframe_KeepsLastDate(history, periods) ==
    LET hist == HistoryDates(history)
        last_date == hist[Len(hist)]
        dates == MonthStartRange(last_date, periods + 1)
    IN  hist \o Head0(dates, periods)

(* full_model.make_future_dataframe(periods, freq = 'MS'), include_history *)
make_future_dataframe(history, periods) ==
    LET hist == HistoryDates(history)
        last_date == hist[Len(hist)]
        dates == MonthStartRange(last_date, periods + 1)
        later == SelectIdx(dates, {i \in 1..Len(dates) : Ordinal(dates[i]) > Ordinal(last_date)}, 1)
    IN  hist \o Head0(later, periods)

(* seasonal_decompose(x, model = 'multiplicative', period = 12) raises ValueError *)
DecomposeRaises(rows) ==
    \/ \E i \in 1..Len(rows) : rows[i].TransactionVolume_Cr.v <= 0
    \/ Len(rows) < MIN_CYCLES * DECOMPOSE_PERIOD

-----------------------------------------------------------------------------
(* __main__: the statement that follows each call *)

(* variant: the processed-data file is written after perform_eda *)
MainAfter_EdaBeforeSave(stage) ==
    CASE stage = "load" -> "features"
      [] stage = "features" -> "eda_volume"
      [] stage = "eda" -> "save_processed"
      [] stage = "save_processed" -> "fc_split"
      [] stage = "forecast" -> "save_forecast"
      [] stage = "save_forecast" -> "done"

MainAfter(stage) ==
    CASE stage = "load" -> "features"
      [] stage = "features" -> "save_processed"
      [] stage = "save_processed" -> "eda_volume"
      [] stage = "eda" -> "fc_split"
      [] stage = "forecast" -> "save_forecast"
      [] stage = "save_forecast" -> "done"

NotCalled == [called |-> FALSE, arg |-> <<>>]
Called(arg) == [called |-> TRUE, arg |-> arg]

ScriptInit ==
    /\ entry = "script"
    /\ \/ \E rows \in SmallTables : file = [status |-> "present", rows |-> rows]
       \/ \E pat \in Patterns, n \in 1..MaxRows, d \in Defects :
             \E k \in 1..n : file = [status |-> "present", rows |-> DefectTable(pat, n, d, k)]
       \/ \E status \in {"missing", "unreadable"} : file = [status |-> status, rows |-> <<>>]
    /\ pc = "load"
    /\ df_featured = None

(* forecast_transactions called on its own with a cleaned, featured frame *)
ImportInit ==
    /\ entry = "import"
    /\ \/ \E rows \in SmallTables : file = [status |-> "present", rows |-> rows]
       \/ \E pat \in Patterns, n \in 1..MaxRows, d \in Defects :
             \E k \in 1..n : file = [status |-> "present", rows |-> DefectTable(pat, n, d, k)]
    /\ AllDatesParse(file.rows)
    /\ pc = "fc_split"
    /\ \E cleaned \in {CleanRows(file.rows)} :
          df_featured = DataFrame(create_features(cleaned))

Init ==
    /\ ScriptInit \/ ImportInit
    /\ exc = "none"
    /\ df_cleaned = None
    /\ stdout = <<>>
    /\ files = {}
    /\ steps = <<>>
    /\ train = <<>>
    /\ test = <<>>
    /\ eval_fit = NotCalled
    /\ eval_predict = NotCalled
    /\ metrics = NotCalled
    /\ full_fit = NotCalled
    /\ future = <<>>
    /\ final_forecast = None

FcVars == <<train, test, eval_fit, eval_predict, metrics, full_fit, future, final_forecast>>

Raise(name) == pc' = "crashed" /\ exc' = name

Step(name) == steps' = Append(steps, name)

-----------------------------------------------------------------------------
(* load_and_clean_data, called from __main__ *)

(* variant: read_csv outside the try block *)
LoadNotFound_Uncaught ==
    /\ pc = "load" /\ file.status = "missing"
    /\ Step("load")
    /\ Raise("FileNotFoundError")
    /\ UNCHANGED <<entry, file, df_cleaned, df_featured, stdout, files, FcVars>>

LoadNotFound ==
    /\ pc = "load" /\ file.status = "missing"
    /\ Step("load")
    /\ stdout' = Append(stdout, "Error: file not found")
    /\ df_cleaned' = None
    /\ pc' = "done"
    /\ UNCHANGED <<entry, file, exc, df_featured, files, FcVars>>

LoadUnreadable ==
    /\ pc = "load" /\ file.status = "unreadable"
    /\ Step("load")
    /\ Raise("PermissionError")
    /\ UNCHANGED <<entry, file, df_cleaned, df_featured, stdout, files, FcVars>>

LoadBadDate ==
    /\ pc = "load" /\ file.status = "present"
    /\ ~AllDatesParse(file.rows)
    /\ Step("load")
    /\ Raise("ValueError")
    /\ UNCHANGED <<entry, file, df_cleaned, df_featured, stdout, files, FcVars>>

LoadOk ==
    /\ pc = "load" /\ file.status = "present"
    /\ AllDatesParse(file.rows)
    /\ Step("load")
    /\ df_cleaned' = DataFrame(CleanRows(file.rows))
    /\ stdout' = Append(stdout, "Data Loaded and Cleaned Successfully")
    /\ pc' = MainAfter("load")
    /\ UNCHANGED <<entry, file, exc, df_featured, files, FcVars>>

CreateFeatures ==
    /\ pc = "features"
    /\ Step("features")
    /\ df_featured' = DataFrame(create_features(df_cleaned.rows))
    /\ stdout' = Append(stdout, "Feature Engineering Complete")
    /\ pc' = MainAfter("features")
    /\ UNCHANGED <<entry, file, exc, df_cleaned, files, FcVars>>

SaveProcessed ==
    /\ pc = "save_processed"
    /\ Step("save_processed")
    /\ files' = files \cup {"upi_processed_data.csv"}
    /\ stdout' = Append(stdout, "Processed data saved")
    /\ pc' = MainAfter("save_processed")
    /\ UNCHANGED <<entry, file, exc, df_cleaned, df_featured, FcVars>>

-----------------------------------------------------------------------------
(* perform_eda *)

EdaVolumePlot ==
    /\ pc = "eda_volume"
    /\ Step("eda_volume")
    /\ stdout' = Append(stdout, "Starting Exploratory Data Analysis (EDA)")
    /\ files' = files \cup {"upi_volume_growth.png"}
    /\ pc' = "eda_heatmap"
    /\ UNCHANGED <<entry, file, exc, df_cleaned, df_featured, FcVars>>

EdaHeatmap ==
    /\ pc = "eda_heatmap"
    /\ Step("eda_heatmap")
    /\ files' = files \cup {"upi_seasonal_heatmap.png"}
    /\ stdout' = Append(stdout, "Saved 'upi_seasonal_heatmap.png'")
    /\ pc' = "eda_decompose"
    /\ UNCHANGED <<entry, file, exc, df_cleaned, df_featured, FcVars>>

(* the pivot of an empty frame has no cells: seaborn may reject it *)
EdaHeatmapRaises ==
    /\ pc = "eda_heatmap"
    /\ Len(df_featured.rows) = 0
    /\ Step("eda_heatmap")
    /\ Raise("ValueError")
    /\ UNCHANGED <<entry, file, df_cleaned, df_featured, stdout, files, FcVars>>

EdaDecompose ==
    /\ pc = "eda_decompose"
    /\ ~DecomposeRaises(df_featured.rows)
    /\ Step("eda_decompose")
    /\ files' = files \cup {"upi_decomposition_plot.png"}
    /\ stdout' = Append(stdout, "Saved 'upi_decomposition_plot.png'")
    /\ pc' = MainAfter("eda")
    /\ UNCHANGED <<entry, file, exc, df_cleaned, df_featured, FcVars>>

EdaDecomposeRaises ==
    /\ pc = "eda_decompose"
    /\ DecomposeRaises(df_featured.rows)
    /\ Step("eda_decompose")
    /\ Raise("ValueError")
    /\ UNCHANGED <<entry, file, df_cleaned, df_featured, stdout, files, FcVars>>

-----------------------------------------------------------------------------
(* forecast_transactions *)

FcSplit ==
    /\ pc = "fc_split"
    /\ Step("fc_split")
    /\ stdout' = Append(stdout, "Starting Time-Series Forecasting & Evaluation")
    /\ train' = TrainSplit(ProphetDf(df_featured.rows))
    /\ test' = TestSplit(ProphetDf(df_featured.rows))
    /\ pc' = "fc_fit"
    /\ UNCHANGED <<entry, file, exc, df_cleaned, df_featured, files,
                   eval_fit, eval_predict, metrics, full_fit, future, final_forecast>>

EvalFit ==
    /\ pc = "fc_fit"
    /\ ~FitRaises(train)
    /\ Step("fc_fit")
    /\ eval_fit' = Called(train)
    /\ pc' = "fc_predict"
    /\ UNCHANGED <<entry, file, exc, df_cleaned, df_featured, stdout, files,
                   train, test, eval_predict, metrics, full_fit, future, final_forecast>>

EvalFitRaises ==
    /\ pc = "fc_fit"
    /\ FitRaises(train)
    /\ Step("fc_fit")
    /\ eval_fit' = Called(train)
    /\ Raise("ValueError")
    /\ UNCHANGED <<entry, file, df_cleaned, df_featured, stdout, files,
                   train, test, eval_predict, metrics, full_fit, future, final_forecast>>

EvalPredict ==
    /\ pc = "fc_predict"
    /\ Step("fc_predict")
    /\ eval_predict' = Called(DsColumn(test))
    /\ pc' = "fc_score"
    /\ UNCHANGED <<entry, file, exc, df_cleaned, df_featured, stdout, files,
                   train, test, eval_fit, metrics, full_fit, future, final_forecast>>

(* mean_absolute_error / mean_squared_error on test['y'] and the evaluation forecast *)
EvalScore ==
    /\ pc = "fc_score"
    /\ Step("fc_score")
    /\ metrics' = Called(YColumn(test))
    /\ stdout' = Append(stdout, "Model Performance Evaluation (on last 12 months)")
    /\ pc' = "fc_refit"
    /\ UNCHANGED <<entry, file, exc, df_cleaned, df_featured, files,
                   train, test, eval_fit, eval_predict, full_fit, future, final_forecast>>

FullRefit ==
    /\ pc = "fc_refit"
    /\ ~FitRaises(ProphetDf(df_featured.rows))
    /\ Step("fc_refit")
    /\ full_fit' = Called(ProphetDf(df_featured.rows))
    /\ pc' = "fc_future"
    /\ UNCHANGED <<entry, file, exc, df_cleaned, df_featured, stdout, files,
                   train, test, eval_fit, eval_predict, metrics, future, final_forecast>>

FullForecast ==
    /\ pc = "fc_future"
    /\ Step("fc_future")
    /\ future' = make_future_dataframe(full_fit.arg, HORIZON)
    /\ final_forecast' = DataFrame(make_future_dataframe(full_fit.arg, HORIZON))
    /\ pc' = "fc_plot"
    /\ UNCHANGED <<entry, file, exc, df_cleaned, df_featured, stdout, files,
                   train, test, eval_fit, eval_predict, metrics, full_fit>>

PlotForecast ==
    /\ pc = "fc_plot"
    /\ Step("fc_plot")
    /\ files' = files \cup {"upi_forecast_plot_final.png"}
    /\ pc' = IF entry = "script" THEN MainAfter("forecast") ELSE "returned"
    /\ UNCHANGED <<entry, file, exc, df_cleaned, df_featured, stdout, FcVars>>

SaveForecast ==
    /\ pc = "save_forecast"
    /\ Step("save_forecast")
    /\ files' = files \cup {"upi_forecast_data.csv"}
    /\ stdout' = stdout \o <<"Forecast data saved", "Project Pipeline Complete!">>
    /\ pc' = MainAfter("save_forecast")
    /\ UNCHANGED <<entry, file, exc, df_cleaned, df_featured, FcVars>>

Next ==
    \/ LoadNotFound
    \/ LoadUnreadable
    \/ LoadBadDate
    \/ LoadOk
    \/ CreateFeatures
    \/ SaveProcessed
    \/ EdaVolumePlot
    \/ EdaHeatmap
    \/ EdaHeatmapRaises
    \/ EdaDecompose
    \/ EdaDecomposeRaises
    \/ FcSplit
    \/ EvalFit
    \/ EvalFitRaises
    \/ EvalPredict
    \/ EvalScore
    \/ FullRefit
    \/ FullForecast
    \/ PlotForecast
    \/ SaveForecast

Spec == Init /\ [][Next]_vars

-----------------------------------------------------------------------------
(* Vocabulary of the properties *)

Script == entry = "script"

Ran(name) == \E i \in 1..Len(steps) : steps[i] = name

IsPrefix(s, t) == Len(s) <= Len(t) /\ \A i \in 1..Len(s) : s[i] = t[i]

(* the j-th smallest member of a set of integers *)
NthOf(S, j) == CHOOSE i \in S : Cardinality({x \in S : x <= i}) = j

MonthIndex(t) == t.year * 12 + (t.month - 1)

ValidMonth(r) == r.Month \in 1..12

BothNumeric(r) == r.TransactionVolume_Cr.k = "num" /\ r.TransactionValue_RsCr.k = "num"

(* h hundredths is num / den rounded to the nearest hundredth *)
NearestHundredth(h, num, den) == 2 * Abs(h * den - 100 * num) <= Abs(den)

SameRecord(out, raw) ==
    /\ out.Year = raw.Year
    /\ out.Month = raw.Month
    /\ out.TransactionVolume_Cr = Num(raw.TransactionVolume_Cr.v)
    /\ out.TransactionValue_RsCr = Num(raw.TransactionValue_RsCr.v)

LoadReturnedFrame == Script /\ file.status = "present" /\ pc # "load"

-----------------------------------------------------------------------------
-----------------------------------------------------------------------------
NothingProduced ==
    /\ files = {}
    /\ df_featured.none
    /\ final_forecast.none
    /\ ~eval_fit.called /\ ~eval_predict.called /\ ~metrics.called /\ ~full_fit.called
    /\ IsPrefix(steps, <<"load">>)

DiagnosedAndReturnedNone ==
    /\ pc = "done"
    /\ exc = "none"
    /\ df_cleaned.none
    /\ stdout = <<"Error: file not found">>

(* C2 as stated: whenever the input file cannot be opened, the load prints *)
(* its diagnostic and returns no result, and nothing else runs or is       *)
(* written.                                                                *)
C2_UnopenableIsDiagnosed ==
    (Script /\ file.status # "present" /\ pc # "load") =>
        (DiagnosedAndReturnedNone /\ NothingProduced)

(* C2 amended: when the input file does not exist, the load prints its     *)
(* diagnostic and returns no result and the run ends; when the file cannot *)
(* be opened for any reason, no artifact is written and no feature, EDA or *)
(* forecast step runs (an open failure other than file-not-found is not    *)
(* caught: it ends the run with the exception).                            *)
C2_MissingIsDiagnosedNothingWritten ==
    /\ (Script /\ file.status = "missing" /\ pc # "load") => DiagnosedAndReturnedNone
    /\ (Script /\ file.status # "present") => NothingProduced
    /\ (Script /\ file.status = "unreadable" /\ pc # "load") =>
          (pc = "crashed" /\ exc = "PermissionError" /\ stdout = <<>>)

(* C2 witness: the run on a missing file has ended after the diagnostic *)
C2_Witness ==
    Script /\ file.status = "missing" /\ pc = "done" /\ Len(stdout) = 1

-----------------------------------------------------------------------------
(* C3 as stated: rows with a valid (year, month) get the first day of that *)
(* month as period, rows with an invalid pair are left out of the cleaned  *)
(* series, the other rows are returned and the run does not fail.          *)
C3_InvalidDatesAreExcluded ==
    LoadReturnedFrame =>
        LET raw == file.rows
            out == df_cleaned.rows
            keep == {i \in 1..Len(raw) : ValidMonth(raw[i]) /\ BothNumeric(raw[i])}
        IN  /\ ~df_cleaned.none
            /\ Len(out) = Cardinality(keep)
            /\ \A j \in 1..Len(out) :
                  /\ SameRecord(out[j], raw[NthOf(keep, j)])
                  /\ out[j].Date = Timestamp(out[j].Year, out[j].Month, 1)

-----------------------------------------------------------------------------
Ascending(rows) ==
    \A j \in 1..(Len(rows) - 1) : MonthIndex(rows[j].Date) <= MonthIndex(rows[j + 1].Date)

(* C4 as stated: the frame load_and_clean_data returns, and the frame the  *)
(* later steps work on, is in ascending period order whatever the order of *)
(* the input rows.                                                         *)
C4_CleanedIsAscending ==
    /\ (Script /\ ~df_cleaned.none) => Ascending(df_cleaned.rows)
    /\ (Script /\ ~df_featured.none) => Ascending(df_featured.rows)

-----------------------------------------------------------------------------
YoYDefinedAndRounded(rows, t) ==
    LET cur == rows[t].TransactionVolume_Cr.v
        base == rows[t - 12].TransactionVolume_Cr.v
        yoy == rows[t].YoY_Volume_Growth_pct
    IN  /\ yoy.k = "dec2"
        /\ NearestHundredth(yoy.v, 100 * (cur - base), base)

-----------------------------------------------------------------------------
(* C6 as stated: a period of zero volume gets the undefined marker as its  *)
(* average value per unit, never an infinite value; a period of nonzero    *)
(* volume gets value/volume rounded to 2 decimals.                         *)
C6_ZeroVolumeAverageIsUndefined ==
    (Script /\ Ran("features")) =>
        \A t \in 1..Len(df_featured.rows) :
            LET r == df_featured.rows[t]
            IN  IF r.TransactionVolume_Cr.v = 0
                THEN IsNaN(r.AvgTransactionValue_Rs)
                ELSE /\ r.AvgTransactionValue_Rs.k = "dec2"
                     /\ NearestHundredth(r.AvgTransactionValue_Rs.v,
                                         r.TransactionValue_RsCr.v, r.TransactionVolume_Cr.v)

-----------------------------------------------------------------------------
EntryOf(rows, i) == [ds |-> rows[i].Date, y |-> rows[i].TransactionVolume_Cr]

(* C7: once forecast_transactions has split a series of N > 12 entries,    *)
(* the holdout is its last 12 entries by position and the training set its *)
(* first N - 12; the evaluation model is fitted on the training entries    *)
(* and its predict call receives the 12 holdout dates and nothing else.    *)
C7_HoldoutIsLastTwelve ==
    (Ran("fc_split") /\ Len(df_featured.rows) > 12) =>
        LET rows == df_featured.rows
            N == Len(rows)
        IN  /\ Len(train) = N - 12
            /\ Len(test) = 12
            /\ \A i \in 1..(N - 12) : train[i] = EntryOf(rows, i)
            /\ \A i \in 1..12 : test[i] = EntryOf(rows, N - 12 + i)
            /\ eval_fit.called =>
                  /\ Len(eval_fit.arg) = N - 12
                  /\ \A i \in 1..(N - 12) : eval_fit.arg[i] = EntryOf(rows, i)
            /\ eval_predict.called =>
                  /\ eval_fit.called
                  /\ Len(eval_predict.arg) = 12
                  /\ \A i \in 1..12 : eval_predict.arg[i] = rows[N - 12 + i].Date

(* C7 witness: the evaluation model has predicted for a series of 14 to 23 *)
(* entries, and for one of at least 24                                      *)
C7_Witness ==
    /\ eval_predict.called
    /\ Len(df_featured.rows) > 13
    /\ Len(df_featured.rows) < 24
    /\ Len(train) = Len(df_featured.rows) - 12

-----------------------------------------------------------------------------
(* C8: when forecast_transactions is given a series of N <= 12 entries the *)
(* evaluation fails with an exception: no error metric is computed or      *)
(* printed, and neither the refit nor the full-horizon forecast runs.      *)
C8_ShortSeriesFailsEvaluation ==
    (Ran("fc_split") /\ Len(df_featured.rows) <= 12) =>
        /\ ~metrics.called
        /\ ~eval_predict.called
        /\ ~full_fit.called
        /\ final_forecast.none
        /\ future = <<>>
        /\ ~Ran("fc_score") /\ ~Ran("fc_refit") /\ ~Ran("fc_future")
        /\ \A i \in 1..Len(stdout) : stdout[i] # "Model Performance Evaluation (on last 12 months)"
        /\ "upi_forecast_plot_final.png" \notin files
        /\ pc \in {"fc_fit", "crashed"}
        /\ pc = "crashed" => exc = "ValueError"

(* C8 witness: the evaluation fit has raised on a series of 1 to 12 entries *)
C8_Witness ==
    /\ Ran("fc_fit")
    /\ Len(df_featured.rows) \in 1..12
    /\ pc = "crashed"
    /\ exc = "ValueError"

-----------------------------------------------------------------------------
GridIsMonthly(grid, rows) ==
    LET N == Len(rows)
    IN  /\ Len(grid) = N + 24
        /\ \A i \in 1..N : \E j \in 1..N : grid[j] = rows[i].Date
        /\ \A j \in 1..Len(grid) : grid[j].day = 1
        /\ \A j \in 1..(Len(grid) - 1) : MonthIndex(grid[j + 1]) = MonthIndex(grid[j]) + 1
        /\ \A i, j \in 1..Len(grid) : i # j => grid[i] # grid[j]

(* the periods of the series are distinct and are consecutive months *)
ConsecutiveMonths(rows) ==
    LET idx == {MonthIndex(rows[i].Date) : i \in 1..Len(rows)}
    IN  /\ Cardinality(idx) = Len(rows)
        /\ \A a, b \in idx : b - a < Len(rows)

(* C9 as stated: for every series the ingestion and feature steps hand     *)
(* over, the final forecast grid has N + 24 periods, holds every           *)
(* historical period followed by 24 future first-of-month periods, steps   *)
(* by exactly one month and has no duplicate.                              *)
C9_GridIsMonthlyForEverySeries ==
    ~final_forecast.none => GridIsMonthly(final_forecast.rows, df_featured.rows)

(* C9 amended: for every series whose periods are distinct and are         *)
(* consecutive months (in any row order), the final forecast grid has      *)
(* N + 24 periods, holds every historical period followed by 24 future     *)
(* first-of-month periods, steps by exactly one month and has no           *)
(* duplicate.                                                              *)
C9_GridIsMonthlyForConsecutiveMonths ==
    (~final_forecast.none /\ ConsecutiveMonths(df_featured.rows)) =>
        /\ GridIsMonthly(final_forecast.rows, df_featured.rows)
        /\ future = final_forecast.rows

(* C9 witness: the pipeline has forecast over a series of consecutive      *)
(* months that was not in ascending order                                  *)
C9_Witness ==
    /\ Script
    /\ ~final_forecast.none
    /\ ConsecutiveMonths(df_featured.rows)
    /\ ~Ascending(df_featured.rows)
    /\ Len(final_forecast.rows) = Len(df_featured.rows) + 24

-----------------------------------------------------------------------------
MainOrder ==
    <<"load", "features", "save_processed",
      "eda_volume", "eda_heatmap", "eda_decompose",
      "fc_split", "fc_fit", "fc_predict", "fc_score",
      "fc_refit", "fc_future", "fc_plot",
      "save_forecast">>

EdaOrForecastStarted ==
    \E i \in 1..Len(steps) : steps[i] \notin {"load", "features", "save_processed"}

(* C10: in every run of the script the stages happen in the order load,    *)
(* feature derivation, write of the processed-data file, EDA charts,       *)
(* holdout evaluation, full refit and forecast, write of the forecast-data *)
(* file: the processed-data file is written after feature derivation and   *)
(* before any EDA or forecast step, and the forecast-data file only after  *)
(* the full-horizon forecast is complete.                                  *)
C10_StagesInFixedOrder ==
    Script =>
        /\ IsPrefix(steps, MainOrder)
        /\ "upi_processed_data.csv" \in files <=> Ran("save_processed")
        /\ "upi_processed_data.csv" \in files => ~df_featured.none
        /\ EdaOrForecastStarted => "upi_processed_data.csv" \in files
        /\ "upi_forecast_data.csv" \in files <=> Ran("save_forecast")
        /\ "upi_forecast_data.csv" \in files =>
              /\ ~final_forecast.none
              /\ metrics.called
              /\ "upi_forecast_plot_final.png" \in files

(* C10 witness: a run of the script that wrote the forecast-data file *)
C10_Witness ==
    /\ Script
    /\ pc = "done"
    /\ "upi_forecast_data.csv" \in files
    /\ steps = MainOrder

====
